---- MODULE Spec2Model ----
(***************************************************************************)
(* Model of the derivative-free optimizers of async-optimizers:            *)
(*   goldenSectionMinimize   (golden-section-minimize.ts, async and sync)  *)
(*   minimizeGoldenSection1D (minimizeGoldenSection1D.ts)                  *)
(*   minimizePowell          (minimizePowell.ts, async)                    *)
(*                                                                         *)
(* JavaScript numbers are modelled as fixed-point values on an integer     *)
(* grid, extended with NaN, +Infinity, -Infinity and undefined.  Products  *)
(* with a fraction (PHI_RATIO, 0.5, a direction component) are rounded to  *)
(* the nearest grid value, as a floating-point operation rounds to the     *)
(* nearest representable number.                                           *)
(***************************************************************************)
EXTENDS Integers, Sequences, FiniteSets, TLC

(***************************************************************************)
(* Numbers                                                                 *)
(***************************************************************************)
Num(v) == [k |-> "num", v |-> v]

NaN == [k |-> "nan", v |-> 0]

Infinity == [k |-> "inf", v |-> 1]

NegInfinity == [k |-> "inf", v |-> -1]

undefined == [k |-> "undef", v |-> 0]

\* Number(x): undefined converts to NaN in arithmetic and comparisons.
ToNumber(a) == IF a.k = "undef" THEN NaN ELSE a

isNaN(a) == ToNumber(a).k = "nan"

isFinite(a) == ToNumber(a).k = "num"

Sign(i) == IF i > 0 THEN 1 ELSE IF i < 0 THEN -1 ELSE 0

AbsInt(i) == IF i < 0 THEN -i ELSE i

\* a / b for b > 0, rounded to the nearest integer (ties upward).
RoundDiv(a, b) == (2 * a + b) \div (2 * b)

\* a / b for b # 0, rounded to the nearest integer.
RoundQuot(a, b) == IF b > 0 THEN RoundDiv(a, b) ELSE RoundDiv(-a, -b)

Neg(a0) ==
  LET a == ToNumber(a0)
  IN  IF a.k = "nan" THEN NaN ELSE [a EXCEPT !.v = -a.v]

Add(a0, b0) ==
  LET a == ToNumber(a0)
      b == ToNumber(b0)
  IN  CASE a.k = "nan" \/ b.k = "nan" -> NaN
        [] a.k = "inf" /\ b.k = "inf" -> IF a.v = b.v THEN a ELSE NaN
        [] a.k = "inf" -> a
        [] b.k = "inf" -> b
        [] OTHER -> Num(a.v + b.v)

Sub(a, b) == Add(a, Neg(b))

\* Sign of an extended number (0 for NaN).
Sgn(a) == IF a.k = "nan" THEN 0 ELSE Sign(a.v)

\* a * (num / den) with num, den integers, den > 0: the product of a number
\* with a fraction of the grid.
MulFrac(a0, num, den) ==
  LET a == ToNumber(a0)
  IN  CASE a.k = "nan" -> NaN
        [] a.k = "inf" -> IF num = 0 THEN NaN
                          ELSE [k |-> "inf", v |-> a.v * Sign(num)]
        [] OTHER -> Num(RoundDiv(a.v * num, den))

\* a * b for two plain numbers of the same grid (no rescaling).
Mul(a0, b0) ==
  LET a == ToNumber(a0)
      b == ToNumber(b0)
  IN  CASE a.k = "nan" \/ b.k = "nan" -> NaN
        [] a.k = "inf" \/ b.k = "inf" ->
             IF Sgn(a) * Sgn(b) = 0 THEN NaN
             ELSE [k |-> "inf", v |-> Sgn(a) * Sgn(b)]
        [] OTHER -> Num(a.v * b.v)

Lt(a0, b0) ==
  LET a == ToNumber(a0)
      b == ToNumber(b0)
  IN  CASE a.k = "nan" \/ b.k = "nan" -> FALSE
        [] a.k = "num" /\ b.k = "num" -> a.v < b.v
        [] a.k = "inf" /\ b.k = "inf" -> a.v < b.v
        [] a.k = "inf" -> a.v < 0
        [] OTHER -> b.v > 0

Gt(a, b) == Lt(b, a)

Le(a, b) == (~isNaN(a)) /\ (~isNaN(b)) /\ ~Lt(b, a)

MathMax(a0, b0) ==
  LET a == ToNumber(a0)
      b == ToNumber(b0)
  IN  IF a.k = "nan" \/ b.k = "nan" THEN NaN
      ELSE IF Lt(a, b) THEN b ELSE a

MathMin(a0, b0) ==
  LET a == ToNumber(a0)
      b == ToNumber(b0)
  IN  IF a.k = "nan" \/ b.k = "nan" THEN NaN
      ELSE IF Lt(b, a) THEN b ELSE a

MathAbs(a0) ==
  LET a == ToNumber(a0)
  IN  CASE a.k = "nan" -> NaN
        [] a.k = "inf" -> Infinity
        [] OTHER -> Num(AbsInt(a.v))

\* 0.5 * a
Half(a) == MulFrac(a, 1, 2)

\* PHI_RATIO = 2 / (1 + sqrt 5), as the fraction PhiNum / PhiDen.
PhiNum == 618

PhiDen == 1000

PHI_RATIO(a) == MulFrac(a, PhiNum, PhiDen)

(***************************************************************************)
(* State                                                                   *)
(***************************************************************************)
VARIABLES
  \* goldenSectionMinimize / minimizeGoldenSection1D (one call at a time)
  variant,        \* "async" (golden-section-minimize.ts) or "sync"
  pc,             \* position of the line minimizer
  f,              \* the objective of the line minimizer
  options,        \* options of minimizeGoldenSection1D
  tol, maxIterations, hasStatus,
  xL, xU, x1, x2, f1, f2, f10, f20, xL0, xU0, iteration,
  status,         \* GoldenSectionMinimizeStatus
  result,         \* value returned by the line minimizer
  bracketed,      \* the call went through bracketMinimum
  evals,          \* arguments of the objective evaluations of this call
  \* minimizePowell
  ppc, objective, x0, powellOptions, n, p, u, ui, pj, p0, iter, err, perr, i,
  points, hasPoints, powellResult, evalCount, searches,
  \* the objective
  pending,        \* evaluations requested and not yet resolved
  handed,         \* the array the latest evaluation handed to the objective
  \* the arrays
  refs,           \* the arrays that p and the entries of the trace refer to
  \* the runs
  active,         \* the run whose frame is executing
  other,          \* the frame of the run that is suspended meanwhile
  solo            \* what the run that was alone returned and traced

gsVars == <<xL, xU, x1, x2, f1, f2, f10, f20, xL0, xU0, iteration>>

lineVars == <<variant, f, options, tol, maxIterations, hasStatus, bracketed>>

callVars == <<evals, evalCount, pj, pending, handed>>

runVars == <<active, other, solo>>

powellVars == <<ppc, objective, x0, powellOptions, n, p, u, ui, p0, iter,
                err, perr, i, points, hasPoints, powellResult, searches,
                refs, runVars>>

vars == <<gsVars, lineVars, pc, status, result, callVars, powellVars>>

(***************************************************************************)
(* Objectives                                                              *)
(***************************************************************************)
\* Objectives of one variable.  An objective yields NaN on the window
\* [nanFrom, nanTo] (empty when nanFrom > nanTo) and at a NaN argument.
Shape1(shape, c, x) ==
  CASE shape = "parabola" -> Mul(Num(2), Mul(Sub(x, Num(c)), Sub(x, Num(c))))
    [] shape = "line" -> Mul(Num(2), x)
    [] shape = "negline" -> Mul(Num(-2), x)
    [] shape = "negparabola" -> Mul(Num(-2), Mul(x, x))
    [] shape = "dip" ->
         IF Lt(MathAbs(Sub(x, Num(c))), Num(150))
         THEN Mul(Num(2), Mul(Sub(x, Num(c)), Sub(x, Num(c))))
         ELSE Mul(Num(-2), Add(x, Num(1)))
    [] OTHER -> IF isNaN(x) THEN NaN ELSE Num(0)

F1(fn, x) ==
  IF x.k = "num" /\ fn.nanFrom <= x.v /\ x.v <= fn.nanTo THEN NaN
  ELSE Shape1(fn.shape, fn.c, ToNumber(x))

\* Objectives of a vector v: a bowl centred at fn.c, or a slope along the
\* first coordinate; NaN when the first coordinate lies in the NaN window.
RECURSIVE SumSq(_, _, _)
SumSq(v, c, j) ==
  IF j > Len(v) THEN Num(0)
  ELSE Add(Mul(Num(2), Mul(Sub(v[j], Num(c[j])), Sub(v[j], Num(c[j])))),
           SumSq(v, c, j + 1))

FN(fn, v) ==
  IF Len(v) > 0 /\ v[1].k = "num" /\ fn.nanFrom <= v[1].v /\ v[1].v <= fn.nanTo
  THEN NaN
  ELSE CASE fn.shape = "bowl" -> SumSq(v, fn.c, 1)
         [] fn.shape = "slope" ->
              IF Len(v) = 0 THEN Num(0) ELSE Mul(Num(-2), v[1])
         [] OTHER -> Num(0)

\* Direction components are fractions of U.
U == 10

\* t * uj for a step t and a direction component uj.
MulU(t, uj) ==
  LET m == Mul(t, uj)
  IN  IF m.k = "num" THEN Num(RoundDiv(m.v, U)) ELSE m

\* minimizePowell.fi: the working point p + ui * t.
fiPoint(t) == [j \in 1..n |-> Add(p[j], MulU(t, ui[j]))]

\* f(x) as the line minimizer calls it: an objective of one variable, or
\* minimizePowell's fi.
Evaluate(x) ==
  IF f.kind = "f" THEN F1(f.fn, x) ELSE FN(objective, fiPoint(x))

\* The scratch buffer pj after an evaluation at x.
pjAfter(x) == IF f.kind = "f" THEN pj ELSE fiPoint(x)

(***************************************************************************)
(* goldenSectionMinimize                                                   *)
(***************************************************************************)
EmptyStatus ==
  [iterations |-> undefined, argmin |-> undefined, minimum |-> undefined,
   converged |-> "undefined"]

\* The async code suspends at every evaluation (await f(x)); the sync code
\* gets the value at once.
\* The caller's array x0.
X0Array == <<"x0", 0, 0>>

\* const pj = [], the scratch array of the active run
PjArray == <<"pj", active, 0>>

\* No array: the objective of a line minimizer is handed a number.
NoArray == <<"none", 0, 0>>

\* The arrays of a run before the run has allocated them.
NoArrays == [p |-> NoArray, points |-> <<>>]

\* Mutant: slice returns the array itself instead of a copy.
sliceMutant(a, k) == a

\* a.slice(): another array with the contents of a, the k-th array that
\* the active run allocates
slice(a, k) == <<"copy", active, k>>

\* The contents of array a, which held c, once the contents d were written
\* to array b: a write changes every reference to the same array.
Written(a, c, b, d) == IF a = b THEN d ELSE c

\* The trace once the contents d were written to p.
WrittenTrace(d) ==
  [k \in DOMAIN points |-> Written(refs.points[k], points[k], refs.p, d)]

\* No run: the frame and the report of a run that was not started.
NoRun == [ppc |-> "none"]

Suspends == IF variant = "async" THEN 1 ELSE 0

\* One evaluation f(x): the value is computed, the call is recorded, and
\* minimizePowell's fi leaves the working point in pj, the array it hands
\* to the objective.
Called(x) ==
  /\ evals' = Append(evals, x)
  /\ evalCount' = evalCount + 1
  /\ pj' = pjAfter(x)
  /\ pending' = pending + Suspends
  /\ handed' = IF f.kind = "fi" THEN PjArray ELSE NoArray

\* Mutant: the continuation does not wait for the evaluation.
AwaitedMutant == TRUE

\* await: the continuation runs when the evaluation it waits for has
\* resolved.
Awaited == pending = 0

\* The objective resolves an outstanding evaluation.
ObjectiveResolves ==
  /\ pending > 0
  /\ pending' = pending - 1
  /\ UNCHANGED <<gsVars, lineVars, pc, status, result, powellVars>>
  /\ UNCHANGED <<evals, evalCount, pj, handed>>

\* x1 = xU - PHI_RATIO * (xU - xL)
LowerProbe(lo, hi) == Sub(hi, PHI_RATIO(Sub(hi, lo)))

\* x2 = xL + PHI_RATIO * (xU - xL)
UpperProbe(lo, hi) == Add(lo, PHI_RATIO(Sub(hi, lo)))

\* f1 = await f(x1), after iteration, x1 and x2 are initialised
GSProbe1 ==
  /\ pc = "gs"
  /\ iteration' = 0
  /\ x1' = LowerProbe(xL, xU)
  /\ x2' = UpperProbe(xL, xU)
  /\ f1' = Evaluate(LowerProbe(xL, xU))
  /\ Called(LowerProbe(xL, xU))
  /\ pc' = "f2"
  /\ UNCHANGED <<xL, xU, f2, f10, f20, xL0, xU0>>
  /\ UNCHANGED <<lineVars, status, result>>
  /\ UNCHANGED powellVars

\* f2 = await f(x2)
GSProbe2 ==
  /\ pc = "f2"
  /\ Awaited
  /\ f2' = Evaluate(x2)
  /\ Called(x2)
  /\ pc' = "f10"
  /\ UNCHANGED <<xL, xU, x1, x2, f1, f10, f20, xL0, xU0, iteration>>
  /\ UNCHANGED <<lineVars, status, result>>
  /\ UNCHANGED powellVars

\* f10 = await f(xL)
GSEndpointL ==
  /\ pc = "f10"
  /\ Awaited
  /\ f10' = Evaluate(xL)
  /\ Called(xL)
  /\ pc' = "f20"
  /\ UNCHANGED <<xL, xU, x1, x2, f1, f2, f20, xL0, xU0, iteration>>
  /\ UNCHANGED <<lineVars, status, result>>
  /\ UNCHANGED powellVars

\* f20 = await f(xU); xL0 = xL; xU0 = xU
GSEndpointU ==
  /\ pc = "f20"
  /\ Awaited
  /\ f20' = Evaluate(xU)
  /\ Called(xU)
  /\ xL0' = xL
  /\ xU0' = xU
  /\ pc' = "loop"
  /\ UNCHANGED <<xL, xU, x1, x2, f1, f2, f10, iteration>>
  /\ UNCHANGED <<lineVars, status, result>>
  /\ UNCHANGED powellVars

\* Mutant: the budget test admits one iteration more.
LoopConditionMutant(it, maxIt, lo, hi, t) ==
  it <= maxIt /\ Gt(MathAbs(Sub(hi, lo)), t)

\* ++iteration < maxIterations && Math.abs(xU - xL) > tol, with it the
\* value of iteration after the increment
LoopCondition(it, maxIt, lo, hi, t) ==
  it < maxIt /\ Gt(MathAbs(Sub(hi, lo)), t)

\* One pass of the while loop: the interval shrinks from the side of the
\* larger probe value and one new probe is evaluated.
GSIterate ==
  /\ pc = "loop"
  /\ Awaited
  /\ LoopCondition(iteration + 1, maxIterations, xL, xU, tol)
  /\ iteration' = iteration + 1
  /\ IF Gt(f2, f1)
     THEN /\ xU' = x2
          /\ x2' = x1
          /\ f2' = f1
          /\ x1' = LowerProbe(xL, x2)
          /\ f1' = Evaluate(LowerProbe(xL, x2))
          /\ Called(LowerProbe(xL, x2))
          /\ UNCHANGED xL
     ELSE /\ xL' = x1
          /\ x1' = x2
          /\ f1' = f2
          /\ x2' = UpperProbe(x1, xU)
          /\ f2' = Evaluate(UpperProbe(x1, xU))
          /\ Called(UpperProbe(x1, xU))
          /\ UNCHANGED xU
  /\ UNCHANGED <<f10, f20, xL0, xU0>>
  /\ UNCHANGED <<lineVars, pc, status, result>>
  /\ UNCHANGED powellVars

\* Mutant: the upper endpoint is never chosen.
SelectResultMutant(fL, fU, fF, lo, hi, xF) == IF Lt(fL, fF) THEN lo ELSE xF

\* if (f10 < fF) return xL0; else if (f20 < fF) return xU0; else return xF
SelectResult(fL, fU, fF, lo, hi, xF) ==
  IF Lt(fL, fF) THEN lo ELSE IF Lt(fU, fF) THEN hi ELSE xF

\* Mutant: a converged search always returns the midpoint.
FinishAsyncMutant(it, maxIt, v1, v2, fL, fU, lo, hi, xF, fF) ==
  IF it = maxIt
  THEN [result |-> xF, converged |-> "false"]
  ELSE IF isNaN(v2) \/ isNaN(v1)
       THEN [result |-> undefined, converged |-> "false"]
       ELSE [result |-> xF, converged |-> "true"]

\* The statements after the loop of the async goldenSectionMinimize:
\* the returned value and the converged flag.
FinishAsync(it, maxIt, v1, v2, fL, fU, lo, hi, xF, fF) ==
  IF it = maxIt
  THEN [result |-> xF, converged |-> "false"]
  ELSE IF isNaN(v2) \/ isNaN(v1)
       THEN [result |-> undefined, converged |-> "false"]
       ELSE [result |-> SelectResult(fL, fU, fF, lo, hi, xF),
             converged |-> "true"]

\* The statements after the loop of the sync goldenSectionMinimize.
FinishSync(it, maxIt, v1, v2, fL, fU, lo, hi, xF, fF) ==
  IF isNaN(v2) \/ isNaN(v1) \/ it = maxIt
  THEN [result |-> NaN, converged |-> "false"]
  ELSE [result |-> SelectResult(fL, fU, fF, lo, hi, xF),
        converged |-> "true"]

\* The loop ends (the failed test still increments iteration); xF, fF and
\* the status are set and the call returns.
GSReturn ==
  /\ pc = "loop"
  /\ Awaited
  /\ ~LoopCondition(iteration + 1, maxIterations, xL, xU, tol)
  /\ iteration' = iteration + 1
  /\ LET xF == Half(Add(xU, xL))
         fF == Half(Add(f1, f2))
         fin == IF variant = "async"
                THEN FinishAsync(iteration + 1, maxIterations, f1, f2,
                                 f10, f20, xL0, xU0, xF, fF)
                ELSE FinishSync(iteration + 1, maxIterations, f1, f2,
                                f10, f20, xL0, xU0, xF, fF)
     IN  /\ status' = IF hasStatus
                      THEN [iterations |-> Num(iteration + 1),
                            argmin |-> xF, minimum |-> fF,
                            converged |-> fin.converged]
                      ELSE status
         /\ result' = fin.result
  /\ pc' = "done"
  /\ UNCHANGED <<xL, xU, x1, x2, f1, f2, f10, f20, xL0, xU0>>
  /\ UNCHANGED <<lineVars, callVars>>
  /\ UNCHANGED powellVars

(***************************************************************************)
(* bracketMinimum (bracket-minimum.ts)                                     *)
(***************************************************************************)
\* Number of doubling steps after which the expansion gives up.
BracketCap == 9

\* Expansion of the bracket [s.xl, s.xu] around the guess: each side steps
\* outward by s.dx while the objective keeps decreasing on that side and the
\* domain limit is not reached; the step doubles every round.  When a side
\* is still decreasing after BracketCap rounds, the bracket is NaN, NaN.
RECURSIVE Expand(_, _, _)
Expand(s, xMin, xMax) ==
  IF ~s.goL /\ ~s.goU THEN s
  ELSE IF s.k = BracketCap THEN [s EXCEPT !.xl = NaN, !.xu = NaN]
  ELSE
    LET nl == IF s.goL THEN MathMax(xMin, Sub(s.xl, s.dx)) ELSE s.xl
        nu == IF s.goU THEN MathMin(xMax, Add(s.xu, s.dx)) ELSE s.xu
        vl == IF s.goL THEN Evaluate(nl) ELSE s.fl
        vu == IF s.goU THEN Evaluate(nu) ELSE s.fu
        el == IF s.goL THEN Append(s.evs, nl) ELSE s.evs
        eu == IF s.goU THEN Append(el, nu) ELSE el
    IN  Expand([xl |-> nl, xu |-> nu, fl |-> vl, fu |-> vu,
                fmin |-> MathMin(s.fmin, MathMin(vl, vu)),
                goL |-> s.goL /\ Lt(vl, s.fmin) /\ Gt(nl, xMin),
                goU |-> s.goU /\ Lt(vu, s.fmin) /\ Lt(nu, xMax),
                dx |-> Mul(Num(2), s.dx), k |-> s.k + 1, evs |-> eu],
               xMin, xMax)

\* bracketMinimum(bounds, f, x0, dx, xMin, xMax): the bracket it leaves in
\* bounds and the points it evaluated.
bracketMinimum(guess, dx, xMin, xMax) ==
  LET moving == Gt(MathAbs(dx), Num(0)) /\ Lt(xMin, xMax)
      r == Expand([xl |-> guess, xu |-> guess, fl |-> Evaluate(guess),
                   fu |-> Evaluate(guess), fmin |-> Evaluate(guess),
                   goL |-> moving /\ Gt(guess, xMin),
                   goU |-> moving /\ Lt(guess, xMax),
                   dx |-> dx, k |-> 0, evs |-> <<guess>>], xMin, xMax)
  IN  [bounds |-> <<r.xl, r.xu>>, evs |-> r.evs]

(***************************************************************************)
(* minimizeGoldenSection1D                                                 *)
(***************************************************************************)
\* options.tolerance === undefined ? 1e-8 : ...  (1e-8 is below the grid)
DefaultTolerance == 0

\* options.initialIncrement === undefined ? 1 : ...
DefaultIncrement == 1

\* options.maxIterations === undefined ? 100 : ...
DefaultMaxIterations == 100

NoOptions ==
  [tolerance |-> undefined, initialIncrement |-> undefined,
   lowerBound |-> undefined, upperBound |-> undefined,
   maxIterations |-> undefined, guess |-> undefined]

OrElse(a, d) == IF a.k = "undef" THEN d ELSE a

\* The starting point of the bracketer when no guess is given.
BestGuess(o, xMin, xMax) ==
  IF o.guess.k = "undef"
  THEN IF Gt(xMin, NegInfinity)
       THEN IF Lt(xMax, Infinity) THEN Half(Add(xMin, xMax)) ELSE xMin
       ELSE IF Lt(xMax, Infinity) THEN xMax ELSE Num(0)
  ELSE o.guess

\* Mutant: the test of the lower bound is inverted.
SkipBracketMutant(xMin, xMax) == isFinite(xMax) /\ ~isFinite(xMin)

\* Both bounds finite: the search interval is the bounds themselves.
SkipBracket(xMin, xMax) == isFinite(xMax) /\ isFinite(xMin)

\* minimizeGoldenSection1D(f, options, status) up to the call of
\* goldenSectionMinimize, or to the return of NaN after a failed bracket.
MinimizeGoldenSection1D ==
  /\ pc = "line"
  /\ LET xMin == OrElse(options.lowerBound, NegInfinity)
         xMax == OrElse(options.upperBound, Infinity)
         dx == OrElse(options.initialIncrement, Num(DefaultIncrement))
         br == bracketMinimum(BestGuess(options, xMin, xMax), dx, xMin, xMax)
         initStatus == IF hasStatus
                       THEN [iterations |-> Num(0), argmin |-> NaN,
                             minimum |-> Infinity, converged |-> "false"]
                       ELSE status
     IN  /\ tol' = OrElse(options.tolerance, Num(DefaultTolerance))
         /\ maxIterations' = OrElse(options.maxIterations,
                                    Num(DefaultMaxIterations)).v
         /\ status' = initStatus
         /\ IF SkipBracket(xMin, xMax)
            THEN /\ xL' = xMin
                 /\ xU' = xMax
                 /\ pc' = "gs"
                 /\ UNCHANGED <<bracketed, callVars, result>>
            ELSE /\ bracketed' = TRUE
                 /\ evals' = evals \o br.evs
                 /\ evalCount' = evalCount + Len(br.evs)
                 /\ pj' = pjAfter(br.evs[Len(br.evs)])
                 /\ handed' = IF f.kind = "fi" THEN PjArray ELSE NoArray
                 /\ UNCHANGED pending
                 /\ IF isNaN(br.bounds[1]) \/ isNaN(br.bounds[2])
                    THEN /\ result' = NaN
                         /\ pc' = "done"
                         /\ UNCHANGED <<xL, xU>>
                    ELSE /\ xL' = br.bounds[1]
                         /\ xU' = br.bounds[2]
                         /\ pc' = "gs"
                         /\ UNCHANGED result
  /\ UNCHANGED <<x1, x2, f1, f2, f10, f20, xL0, xU0, iteration>>
  /\ UNCHANGED <<variant, f, options, hasStatus>>
  /\ UNCHANGED powellVars

(***************************************************************************)
(* minimizePowell                                                          *)
(***************************************************************************)
\* a / b in JavaScript, the quotient of two finite numbers scaled by scale
\* and rounded to the grid.
Quot(a0, b0, scale) ==
  LET a == ToNumber(a0)
      b == ToNumber(b0)
  IN  CASE a.k = "nan" \/ b.k = "nan" -> NaN
        [] a.k = "inf" /\ b.k = "inf" -> NaN
        [] a.k = "inf" -> [k |-> "inf", v |-> IF b.v < 0 THEN -a.v ELSE a.v]
        [] b.k = "inf" -> Num(0)
        [] b.v = 0 -> IF a.v = 0 THEN NaN ELSE [k |-> "inf", v |-> Sign(a.v)]
        [] OTHER -> Num(RoundQuot(a.v * scale, b.v))

\* The integer square root of v >= 0, searched in lo..hi.
RECURSIVE SqrtIn(_, _, _)
SqrtIn(v, lo, hi) ==
  IF lo = hi THEN lo
  ELSE LET mid == (lo + hi + 1) \div 2
       IN  IF mid * mid <= v THEN SqrtIn(v, mid, hi)
           ELSE SqrtIn(v, lo, mid - 1)

\* Math.sqrt(a) of a sum of squares, as a fraction of U.
MathSqrt(a0) ==
  LET a == ToNumber(a0)
  IN  CASE a.k = "nan" -> NaN
        [] a.k = "inf" -> IF a.v > 0 THEN Infinity ELSE NaN
        [] a.v < 0 -> NaN
        [] OTHER -> Num(SqrtIn(a.v * U * U, 0, 46340))

\* const dx = 0.1, on a grid of StepsPerUnit steps per unit
DxNum == 1

DxDen == 10

StepsPerUnit == 100

\* options?.maxIter ?? 20
DefaultMaxIter == 20

\* options?.maxIterLinearSearch ?? 100
DefaultMaxIterLinearSearch == 100

\* options?.tolerance ?? 1e-8, as the fraction num / den
DefaultPowellTolerance == [k |-> "frac", num |-> 1, den |-> 100000000]

NoBound == [k |-> "null", lo |-> NegInfinity, hi |-> Infinity]

Pair(lo, hi) == [k |-> "pair", lo |-> lo, hi |-> hi]

\* const bounds = options?.bounds ?? []
BoundsOf(o) == IF o.hasBounds THEN o.bounds ELSE <<>>

\* constrain(x), from index k on: every coordinate with a bound entry is
\* clamped to the finite sides of the entry.
RECURSIVE constrainFrom(_, _, _)
constrainFrom(x, bounds, k) ==
  IF k > Len(bounds) THEN x
  ELSE
    LET b == bounds[k]
        xk == IF k <= Len(x) THEN x[k] ELSE undefined
        a == IF isFinite(b.lo) THEN MathMax(b.lo, xk) ELSE xk
        c == IF isFinite(b.hi) THEN MathMin(b.hi, a) ELSE a
    IN  IF b.k = "null" \/ (~isFinite(b.lo) /\ ~isFinite(b.hi))
        THEN constrainFrom(x, bounds, k + 1)
        ELSE IF k <= Len(x)
             THEN constrainFrom([x EXCEPT ![k] = c], bounds, k + 1)
             ELSE constrainFrom(Append(x, c), bounds, k + 1)

constrain(x, bounds) == constrainFrom(x, bounds, 1)

\* The lower limit of the step after dimension j is taken into account.
LowerLimit(lower, b, pt, uj) ==
  IF isFinite(b.lo)
  THEN IF Gt(uj, Num(0))
       THEN MathMax(lower, Quot(Sub(b.lo, pt), uj, U))
       ELSE MathMin(lower, Quot(Sub(b.lo, pt), uj, U))
  ELSE lower

\* The upper limit of the step after dimension j is taken into account.
UpperLimit(upper, b, pt, uj) ==
  IF isFinite(b.hi)
  THEN IF Gt(uj, Num(0))
       THEN MathMin(upper, Quot(Sub(b.hi, pt), uj, U))
       ELSE MathMax(upper, Quot(Sub(b.hi, pt), uj, U))
  ELSE upper

\* bound(p, ui), from dimension j on, with the limits found so far.
RECURSIVE boundFrom(_, _, _, _, _, _)
boundFrom(pt, dir, bounds, j, lower, upper) ==
  IF j > n THEN <<lower, upper>>
  ELSE IF j > Len(bounds) \/ bounds[j].k = "null" \/ dir[j] = Num(0)
       THEN boundFrom(pt, dir, bounds, j + 1, lower, upper)
       ELSE boundFrom(pt, dir, bounds, j + 1,
                      LowerLimit(lower, bounds[j], pt[j], dir[j]),
                      UpperLimit(upper, bounds[j], pt[j], dir[j]))

\* let bound = options?.bounds ? function (p, ui) ... : function () ...
bound(pt, dir) ==
  IF powellOptions.hasBounds
  THEN boundFrom(pt, dir, powellOptions.bounds, 1, NegInfinity, Infinity)
  ELSE <<NegInfinity, Infinity>>

\* u[i][j] = i === j ? 1 : 0
Basis(m) == [a \in 1..m |-> [b \in 1..m |-> IF a = b THEN Num(U) ELSE Num(0)]]

\* (options?.lineTolerance ?? tol) * dx, in grid steps
Tol1d(o) ==
  IF o.lineTolerance.k = "undef"
  THEN LET t == IF o.tolerance.k = "undef" THEN DefaultPowellTolerance
                ELSE o.tolerance
       IN  Num(RoundDiv(t.num * StepsPerUnit * DxNum, t.den * DxDen))
  ELSE MulFrac(o.lineTolerance, DxNum, DxDen)

\* The options of the call of minimizeGoldenSection1D for the step limits
\* tlimit.
LineOptions(tlimit) ==
  [lowerBound |-> tlimit[1], upperBound |-> tlimit[2],
   initialIncrement |-> MulFrac(Num(StepsPerUnit), DxNum, DxDen),
   tolerance |-> Tol1d(powellOptions),
   maxIterations |-> OrElse(powellOptions.maxIterLinearSearch,
                            Num(DefaultMaxIterLinearSearch)),
   guess |-> undefined]

NoFn == [shape |-> "none", c |-> 0, nanFrom |-> 1, nanTo |-> 0]

\* tmin = await minimizeGoldenSection1D(fi, {...}): the call starts.
CallLineSearch(dir) ==
  /\ pc' = "line"
  /\ f' = [kind |-> "fi", fn |-> NoFn]
  /\ options' = LineOptions(bound(p, dir))
  /\ hasStatus' = FALSE
  /\ status' = EmptyStatus
  /\ result' = undefined
  /\ bracketed' = FALSE
  /\ evals' = <<>>
  /\ xL' = undefined
  /\ xU' = undefined
  /\ x1' = undefined
  /\ x2' = undefined
  /\ f1' = undefined
  /\ f2' = undefined
  /\ f10' = undefined
  /\ f20' = undefined
  /\ xL0' = undefined
  /\ xU0' = undefined
  /\ iteration' = 0
  /\ tol' = undefined
  /\ maxIterations' = 0
  /\ searches' = searches + 1
  /\ UNCHANGED <<variant, evalCount, pj, pending, handed>>

\* The line minimizer is not running during the step.
LineIdle ==
  UNCHANGED <<gsVars, lineVars, pc, status, result, callVars>>

\* A point as a returned value.
Vec(pt) == [k |-> "vec", v |-> pt]

\* minimizePowell returns r, a point or undefined.
Return(r) ==
  /\ powellResult' = r
  /\ ppc' = "done"

\* The entry of minimizePowell: the options are read, p is the clamped copy
\* of x0, the directions are the basis and the trace gets its first point.
PowellEnter ==
  /\ ppc = "enter"
  /\ n' = Len(x0)
  /\ p' = constrain(x0, BoundsOf(powellOptions))
  /\ u' = Basis(Len(x0))
  /\ points' = IF hasPoints
               THEN <<constrain(x0, BoundsOf(powellOptions))>>
               ELSE points
  /\ refs' = [p |-> slice(X0Array, 1),
              points |-> IF hasPoints
                         THEN <<slice(slice(X0Array, 1), 2)>>
                         ELSE <<>>]
  /\ x0' = Written(X0Array, x0, slice(X0Array, 1),
                   constrain(x0, BoundsOf(powellOptions)))
  /\ iter' = 0
  /\ perr' = Num(0)
  /\ ppc' = "outer"
  /\ UNCHANGED <<runVars, objective, powellOptions, ui, p0, err, i,
                 hasPoints, powellResult, searches>>
  /\ LineIdle

\* Mutant: a used-up budget reported as a failure.
ExhaustedResultMutant(pt) == undefined

\* return p, after the loop
ExhaustedResult(pt) == Vec(pt)

\* while (++iter < maxIter)
OuterCondition(it, o) == it < OrElse(o.maxIter, Num(DefaultMaxIter)).v

\* Mutant: the directions are never reset.
ResetDueMutant(it, m) == FALSE

\* iter % n === 0
ResetDue(it, m) == m > 0 /\ it % m = 0

\* The head of the outer loop: the directions are reset every n iterations
\* and p0 keeps the starting point; or the budget is used up and the
\* current point is returned.
PowellOuter ==
  /\ ppc = "outer"
  /\ iter' = iter + 1
  /\ IF OuterCondition(iter + 1, powellOptions)
     THEN /\ u' = IF ResetDue(iter + 1, n) THEN Basis(n) ELSE u
          /\ p0' = [j \in 1..n |-> p[j]]
          /\ i' = 0
          /\ ppc' = "dir"
          /\ UNCHANGED powellResult
     ELSE /\ Return(ExhaustedResult(p))
          /\ UNCHANGED <<u, p0, i>>
  /\ UNCHANGED <<runVars, objective, x0, powellOptions, refs, n, p, ui, err,
                 perr, points, hasPoints, searches>>
  /\ LineIdle

\* ui = u[i]; tlimit = bound(p, ui); the line search along ui starts.
PowellDirCall ==
  /\ ppc = "dir"
  /\ i < n
  /\ ui' = u[i + 1]
  /\ CallLineSearch(u[i + 1])
  /\ ppc' = "awaitDir"
  /\ UNCHANGED <<runVars, objective, x0, powellOptions, refs, n, p, u, p0,
                 iter, err, perr, i, points, hasPoints, powellResult>>

\* p[j] += tmin * ui[j], in the first n coordinates
Moved(pt, dir, tmin) ==
  [j \in 1..Len(pt) |->
     IF j <= n THEN Add(pt[j], MulU(tmin, dir[j])) ELSE pt[j]]

\* Mutant: the test tmin === 0 is missing.
DirOutcomeMutant(tmin) == IF tmin.k = "undef" THEN "fail" ELSE "step"

\* The outcome of a directional search, as the code distinguishes it.
DirOutcome(tmin) ==
  IF tmin.k = "undef" THEN "fail"
  ELSE IF tmin = Num(0) THEN "converged"
  ELSE "step"

\* The line search along u[i] has returned tmin.
PowellDirReturn ==
  /\ ppc = "awaitDir"
  /\ pc = "done"
  /\ pc' = "idle"
  /\ CASE DirOutcome(result) = "fail" ->
            /\ Return(undefined)
            /\ UNCHANGED <<p, points, i, x0, refs>>
       [] DirOutcome(result) = "converged" ->
            /\ Return(Vec(p))
            /\ UNCHANGED <<p, points, i, x0, refs>>
       [] OTHER ->
            /\ p' = constrain(Moved(p, ui, result), BoundsOf(powellOptions))
            /\ x0' = Written(X0Array, x0, refs.p,
                             constrain(Moved(p, ui, result),
                                       BoundsOf(powellOptions)))
            /\ points' = IF hasPoints
                         THEN Append(WrittenTrace(
                                       constrain(Moved(p, ui, result),
                                                 BoundsOf(powellOptions))),
                                     constrain(Moved(p, ui, result),
                                               BoundsOf(powellOptions)))
                         ELSE points
            /\ refs' = IF hasPoints
                       THEN [refs EXCEPT
                               !.points =
                                 Append(@, slice(refs.p, Len(@) + 2))]
                       ELSE refs
            /\ i' = i + 1
            /\ UNCHANGED powellResult
            /\ ppc' = "dir"
  /\ UNCHANGED <<runVars, objective, powellOptions, n, u, ui, p0, iter, err,
                 perr, hasPoints, searches>>
  /\ UNCHANGED <<gsVars, lineVars, status, result, callVars>>

\* un[j] = p[j] - p0[j]
Displacement(pt, start) == [j \in 1..n |-> Sub(pt[j], start[j])]

\* sum += un[j] * un[j], over all j
RECURSIVE SumOfSquares(_, _)
SumOfSquares(v, j) ==
  IF j > Len(v) THEN Num(0)
  ELSE Add(Mul(v[j], v[j]), SumOfSquares(v, j + 1))

\* un[j] /= sum, a direction in fractions of U
Normalized(v, norm) == [j \in 1..Len(v) |-> Quot(v[j], norm, U * U)]

\* u.shift()
Shifted(dirs) == IF Len(dirs) = 0 THEN dirs ELSE Tail(dirs)

\* After the n directional searches: the oldest direction is dropped; when
\* the point did not move the run returns it, otherwise the normalized
\* displacement becomes the last direction and is searched next.
PowellNewDirection ==
  /\ ppc = "dir"
  /\ i = n
  /\ LET un == Displacement(p, p0)
         sum == MathSqrt(SumOfSquares(un, 1))
     IN  IF Gt(sum, Num(0))
         THEN /\ u' = Append(Shifted(u), Normalized(un, sum))
              /\ ui' = Normalized(un, sum)
              /\ CallLineSearch(Normalized(un, sum))
              /\ ppc' = "awaitExtra"
              /\ UNCHANGED powellResult
         ELSE /\ u' = Shifted(u)
              /\ Return(Vec(p))
              /\ UNCHANGED <<ui, searches>>
              /\ LineIdle
  /\ UNCHANGED <<runVars, objective, x0, powellOptions, refs, n, p, p0, iter,
                 err, perr, i, points, hasPoints>>

\* du = tmin * ui[j]; err += du * du
StepLength(dir, tmin) ==
  MathSqrt(SumOfSquares([j \in 1..n |-> MulU(tmin, dir[j])], 1))

\* The outcome of the extra search, as the code distinguishes it.
ExtraOutcome(tmin) ==
  IF tmin.k = "undef" THEN "fail"
  ELSE IF tmin = Num(0) \/ ~isFinite(tmin) THEN "converged"
  ELSE "step"

\* The line search along the new direction has returned tmin.
PowellExtraReturn ==
  /\ ppc = "awaitExtra"
  /\ pc = "done"
  /\ pc' = "idle"
  /\ CASE ExtraOutcome(result) = "fail" ->
            /\ Return(undefined)
            /\ UNCHANGED <<p, points, err, x0, refs>>
       [] ExtraOutcome(result) = "converged" ->
            /\ Return(Vec(p))
            /\ UNCHANGED <<p, points, err, x0, refs>>
       [] OTHER ->
            /\ p' = constrain(Moved(p, ui, result), BoundsOf(powellOptions))
            /\ x0' = Written(X0Array, x0, refs.p,
                             constrain(Moved(p, ui, result),
                                       BoundsOf(powellOptions)))
            /\ points' = IF hasPoints
                         THEN Append(WrittenTrace(
                                       constrain(Moved(p, ui, result),
                                                 BoundsOf(powellOptions))),
                                     constrain(Moved(p, ui, result),
                                               BoundsOf(powellOptions)))
                         ELSE points
            /\ refs' = IF hasPoints
                       THEN [refs EXCEPT
                               !.points =
                                 Append(@, slice(refs.p, Len(@) + 2))]
                       ELSE refs
            /\ err' = StepLength(ui, result)
            /\ ppc' = IF powellOptions.verbose THEN "verbose" ELSE "ratio"
            /\ UNCHANGED powellResult
  /\ UNCHANGED <<runVars, objective, powellOptions, n, u, ui, p0, iter, perr,
                 i, hasPoints, searches>>
  /\ UNCHANGED <<gsVars, lineVars, status, result, callVars>>

\* if (verbose) console.log(... + await f(p))
PowellVerbose ==
  /\ ppc = "verbose"
  /\ evalCount' = evalCount + 1
  /\ pending' = pending + Suspends
  /\ handed' = refs.p
  /\ ppc' = "ratio"
  /\ UNCHANGED <<runVars, objective, x0, powellOptions, refs, n, p, u, ui, p0,
                 iter, err, perr, i, points, hasPoints, powellResult,
                 searches>>
  /\ UNCHANGED <<gsVars, lineVars, pc, status, result, evals, pj>>

\* err / perr < tol, for the lengths err >= 0 and perr >= 0: with perr = 0
\* the quotient is Infinity or NaN and the test fails.
RatioBelow(e, pe, o) ==
  LET t == IF o.tolerance.k = "undef" THEN DefaultPowellTolerance
           ELSE o.tolerance
  IN  /\ isFinite(e)
      /\ isFinite(pe)
      /\ pe.v > 0
      /\ e.v <= (t.num * pe.v - 1) \div t.den

\* if (err / perr < tol) return p; perr = err
PowellRatio ==
  /\ ppc = "ratio"
  /\ Awaited
  /\ IF RatioBelow(err, perr, powellOptions)
     THEN /\ Return(Vec(p))
          /\ UNCHANGED perr
     ELSE /\ perr' = err
          /\ ppc' = "outer"
          /\ UNCHANGED powellResult
  /\ UNCHANGED <<runVars, objective, x0, powellOptions, refs, n, p, u, ui, p0,
                 iter, err, i, points, hasPoints, searches>>
  /\ LineIdle

(***************************************************************************)
(* Inputs                                                                  *)
(***************************************************************************)
\* Largest coordinate of an interval endpoint, bound or start point.
MaxX == 1600

\* Largest iteration budget of a line search.
MaxIterationsBound == 5

Grid == {0, 400, 1000, MaxX}

NoNaN == [from |-> 1, to |-> 0]

NaNWindows ==
  {NoNaN} \cup {[from |-> w[1], to |-> w[2]] :
                  w \in {<<0, 0>>, <<MaxX, MaxX>>, <<100, 200>>, <<0, 500>>,
                         <<600, 1000>>, <<900, MaxX>>, <<0, MaxX>>}}

Objectives1 ==
  {[kind |-> "f",
    fn |-> [shape |-> s, c |-> 500, nanFrom |-> w.from, nanTo |-> w.to]] :
     s \in {"parabola", "line", "negline", "negparabola", "flat"},
     w \in NaNWindows}

Tolerances == {Num(0), Num(100)}

\* The state of the program when no minimizePowell run is active.
PowellIdle ==
  /\ ppc = "none"
  /\ objective = [shape |-> "none", c |-> <<>>, nanFrom |-> 1, nanTo |-> 0]
  /\ x0 = <<>>
  /\ powellOptions = [k |-> "undef"]
  /\ n = 0
  /\ p = <<>>
  /\ u = <<>>
  /\ ui = <<>>
  /\ pj = <<>>
  /\ p0 = <<>>
  /\ iter = 0
  /\ err = undefined
  /\ perr = Num(0)
  /\ i = 0
  /\ points = <<>>
  /\ hasPoints = FALSE
  /\ powellResult = undefined
  /\ searches = 0
  /\ refs = NoArrays
  /\ active = 0
  /\ other = NoRun
  /\ solo = NoRun

\* The locals of goldenSectionMinimize before the call assigns them.
GSUnassigned ==
  /\ x1 = undefined
  /\ x2 = undefined
  /\ f1 = undefined
  /\ f2 = undefined
  /\ f10 = undefined
  /\ f20 = undefined
  /\ xL0 = undefined
  /\ xU0 = undefined
  /\ iteration = 0

\* An objective with a local minimum at 200 between two descents: it is
\* below that minimum at 0 and lower still from 350 on.
ObjectivesDip ==
  {[kind |-> "f",
    fn |-> [shape |-> "dip", c |-> 200, nanFrom |-> 1, nanTo |-> 0]]}

\* goldenSectionMinimize(f, xL, xU, tol, maxIterations, status) is called.
InitGolden ==
  /\ variant \in {"async", "sync"}
  /\ f \in Objectives1 \cup ObjectivesDip
  /\ xL \in {Num(v) : v \in Grid}
  /\ xU \in {Num(v) : v \in Grid}
  /\ tol \in Tolerances
  /\ maxIterations \in 0..MaxIterationsBound
  /\ hasStatus \in BOOLEAN
  /\ options = NoOptions
  /\ status = EmptyStatus
  /\ result = undefined
  /\ bracketed = FALSE
  /\ evals = <<>>
  /\ evalCount = 0
  /\ pending = 0
  /\ handed = NoArray
  /\ pc = "gs"
  /\ GSUnassigned
  /\ PowellIdle

NextGolden ==
  \/ ObjectiveResolves
  \/ GSProbe1
  \/ GSProbe2
  \/ GSEndpointL
  \/ GSEndpointU
  \/ GSIterate
  \/ GSReturn

SpecGolden == InitGolden /\ [][NextGolden]_vars

OptionSets ==
  [tolerance : {undefined, Num(100)},
   initialIncrement : {undefined, Num(20)},
   lowerBound : {undefined, Num(0), Num(400)},
   upperBound : {undefined, Num(1000), Num(MaxX)},
   maxIterations : {undefined} \cup {Num(m) : m \in {0, 1, MaxIterationsBound}},
   guess : {undefined, Num(0), Num(400)}]

\* minimizeGoldenSection1D(f, options, status) is called.
InitLine ==
  /\ variant \in {"async", "sync"}
  /\ f \in Objectives1
  /\ options \in OptionSets
  /\ hasStatus \in BOOLEAN
  /\ xL = undefined
  /\ xU = undefined
  /\ tol = undefined
  /\ maxIterations = 0
  /\ status = EmptyStatus
  /\ result = undefined
  /\ bracketed = FALSE
  /\ evals = <<>>
  /\ evalCount = 0
  /\ pending = 0
  /\ handed = NoArray
  /\ pc = "line"
  /\ GSUnassigned
  /\ PowellIdle

NextLine ==
  \/ MinimizeGoldenSection1D
  \/ NextGolden

SpecLine == InitLine /\ [][NextLine]_vars

\* Largest budget of outer iterations.
MaxIterBound == 3

\* Iteration budget of the line searches of minimizePowell.
MaxLineIterations == 20

ObjectivesN ==
  {[shape |-> "bowl", c |-> <<500, 300>>, nanFrom |-> w.from,
    nanTo |-> w.to] : w \in {NoNaN, [from |-> 800, to |-> MaxX]}}
  \cup {[shape |-> "slope", c |-> <<0, 0>>, nanFrom |-> 1, nanTo |-> 0]}

StartCoordinates == {Num(0), Num(500), Num(MaxX + 400)}

StartPoints ==
  {<<a>> : a \in StartCoordinates}
  \cup {<<a, b>> : a \in StartCoordinates, b \in StartCoordinates}

BoundChoices ==
  {<<Pair(Num(0), Num(1000)), Pair(Num(0), Num(1000))>>,
   <<Pair(Num(0), Num(1000))>>,
   <<Pair(Num(0), Infinity), NoBound>>,
   <<NoBound, Pair(NegInfinity, Num(400))>>,
   <<Pair(Num(0), Num(1000)), Pair(Num(0), Num(1000)), Pair(Num(0), Num(1000))>>}

PowellOptionSets ==
  {[maxIter |-> mi, maxIterLinearSearch |-> Num(MaxLineIterations),
    lineTolerance |-> lt, tolerance |-> t, hasBounds |-> FALSE,
    bounds |-> <<>>, verbose |-> v] :
     mi \in {undefined, Num(1), Num(2), Num(MaxIterBound)},
     lt \in {undefined, Num(100)},
     t \in {undefined, [k |-> "frac", num |-> 1, den |-> 2]},
     v \in BOOLEAN}
  \cup
  {[maxIter |-> Num(MaxIterBound),
    maxIterLinearSearch |-> Num(MaxLineIterations),
    lineTolerance |-> Num(100), tolerance |-> undefined, hasBounds |-> TRUE,
    bounds |-> b, verbose |-> FALSE] : b \in BoundChoices}

\* Arguments of the runs that are interleaved.
TwoRunObjectives == ObjectivesN

TwoRunStartPoints == {<<Num(0)>>, <<Num(MaxX + 400)>>}

TwoRunOptions ==
  {o \in PowellOptionSets :
     /\ o.maxIter = Num(2)
     /\ o.lineTolerance = Num(100)
     /\ o.tolerance = undefined
     /\ ~o.hasBounds}

\* minimizePowell(f, x0, options, status) is called.
Init ==
  /\ variant = "async"
  /\ objective \in ObjectivesN
  /\ x0 \in StartPoints
  /\ powellOptions \in PowellOptionSets
  /\ hasPoints \in BOOLEAN
  /\ ppc = "enter"
  /\ n = 0
  /\ p = <<>>
  /\ u = <<>>
  /\ ui = <<>>
  /\ pj = <<>>
  /\ p0 = <<>>
  /\ iter = 0
  /\ err = undefined
  /\ perr = Num(0)
  /\ i = 0
  /\ points = <<>>
  /\ powellResult = undefined
  /\ searches = 0
  /\ refs = NoArrays
  /\ active = 0
  /\ other = NoRun
  /\ solo = NoRun
  /\ evalCount = 0
  /\ pending = 0
  /\ handed = NoArray
  /\ pc = "idle"
  /\ f = [kind |-> "fi", fn |-> NoFn]
  /\ options = NoOptions
  /\ hasStatus = FALSE
  /\ xL = undefined
  /\ xU = undefined
  /\ tol = undefined
  /\ maxIterations = 0
  /\ status = EmptyStatus
  /\ result = undefined
  /\ bracketed = FALSE
  /\ evals = <<>>
  /\ GSUnassigned

Next ==
  \/ PowellEnter
  \/ PowellOuter
  \/ PowellDirCall
  \/ PowellDirReturn
  \/ PowellNewDirection
  \/ PowellExtraReturn
  \/ PowellVerbose
  \/ PowellRatio
  \/ NextLine

Spec == Init /\ [][Next]_vars

(***************************************************************************)
(* Two runs of minimizePowell                                              *)
(***************************************************************************)
\* The frame of a run of minimizePowell: its locals and those of the line
\* search it is in, its arguments other than the array x0, its status
\* record and its pending evaluation.
Frame ==
  [variant |-> variant, pc |-> pc, f |-> f, options |-> options,
   tol |-> tol, maxIterations |-> maxIterations, hasStatus |-> hasStatus,
   xL |-> xL, xU |-> xU, x1 |-> x1, x2 |-> x2, f1 |-> f1, f2 |-> f2,
   f10 |-> f10, f20 |-> f20, xL0 |-> xL0, xU0 |-> xU0,
   iteration |-> iteration, status |-> status, result |-> result,
   bracketed |-> bracketed, evals |-> evals, ppc |-> ppc,
   objective |-> objective, powellOptions |-> powellOptions, n |-> n,
   p |-> p, u |-> u, ui |-> ui, pj |-> pj, p0 |-> p0, iter |-> iter,
   err |-> err, perr |-> perr, i |-> i, points |-> points,
   hasPoints |-> hasPoints, powellResult |-> powellResult,
   evalCount |-> evalCount, searches |-> searches, pending |-> pending,
   handed |-> handed, refs |-> refs]

\* The frame of a run at its call with the objective obj, the options o
\* and, when h, a status record.
EntryFrame(obj, o, h) ==
  [variant |-> "async", pc |-> "idle", f |-> [kind |-> "fi", fn |-> NoFn],
   options |-> NoOptions, tol |-> undefined, maxIterations |-> 0,
   hasStatus |-> FALSE, xL |-> undefined, xU |-> undefined,
   x1 |-> undefined, x2 |-> undefined, f1 |-> undefined, f2 |-> undefined,
   f10 |-> undefined, f20 |-> undefined, xL0 |-> undefined,
   xU0 |-> undefined, iteration |-> 0, status |-> EmptyStatus,
   result |-> undefined, bracketed |-> FALSE, evals |-> <<>>,
   ppc |-> "enter", objective |-> obj, powellOptions |-> o, n |-> 0,
   p |-> <<>>, u |-> <<>>, ui |-> <<>>, pj |-> <<>>, p0 |-> <<>>,
   iter |-> 0, err |-> undefined, perr |-> Num(0), i |-> 0, points |-> <<>>,
   hasPoints |-> h, powellResult |-> undefined, evalCount |-> 0,
   searches |-> 0, pending |-> 0, handed |-> NoArray, refs |-> NoArrays]

\* The run with the frame fr continues.
Resume(fr) ==
  /\ variant' = fr.variant
  /\ pc' = fr.pc
  /\ f' = fr.f
  /\ options' = fr.options
  /\ tol' = fr.tol
  /\ maxIterations' = fr.maxIterations
  /\ hasStatus' = fr.hasStatus
  /\ xL' = fr.xL
  /\ xU' = fr.xU
  /\ x1' = fr.x1
  /\ x2' = fr.x2
  /\ f1' = fr.f1
  /\ f2' = fr.f2
  /\ f10' = fr.f10
  /\ f20' = fr.f20
  /\ xL0' = fr.xL0
  /\ xU0' = fr.xU0
  /\ iteration' = fr.iteration
  /\ status' = fr.status
  /\ result' = fr.result
  /\ bracketed' = fr.bracketed
  /\ evals' = fr.evals
  /\ ppc' = fr.ppc
  /\ objective' = fr.objective
  /\ powellOptions' = fr.powellOptions
  /\ n' = fr.n
  /\ p' = fr.p
  /\ u' = fr.u
  /\ ui' = fr.ui
  /\ pj' = fr.pj
  /\ p0' = fr.p0
  /\ iter' = fr.iter
  /\ err' = fr.err
  /\ perr' = fr.perr
  /\ i' = fr.i
  /\ points' = fr.points
  /\ hasPoints' = fr.hasPoints
  /\ powellResult' = fr.powellResult
  /\ evalCount' = fr.evalCount
  /\ searches' = fr.searches
  /\ pending' = fr.pending
  /\ handed' = fr.handed
  /\ refs' = fr.refs

\* What a finished run reports to its caller: its arguments, the value it
\* returned and the trace in its status record.
Report(fr) ==
  [ppc |-> "done", objective |-> fr.objective,
   powellOptions |-> fr.powellOptions, hasPoints |-> fr.hasPoints,
   result |-> fr.powellResult, points |-> fr.points]

\* The run that was alone has returned.  The caller calls minimizePowell
\* twice without awaiting the first call: run 1 gets the arguments of the
\* run that was alone, run 2 the same array x0 with any objective, options
\* and status record of its own.  Run 1 executes up to its first await.
CallTwice ==
  /\ active = 0
  /\ ppc = "done"
  /\ solo' = Report(Frame)
  /\ \E obj \in TwoRunObjectives, o \in TwoRunOptions, h \in BOOLEAN :
       other' = EntryFrame(obj, o, h)
  /\ Resume(EntryFrame(objective, powellOptions, hasPoints))
  /\ active' = 1
  /\ UNCHANGED x0

\* The active run is suspended at an await, or has returned, and the event
\* loop continues the other run.
Switch ==
  /\ active > 0
  /\ pending > 0 \/ ppc = "done"
  /\ other.ppc # "done"
  /\ other' = Frame
  /\ Resume(other)
  /\ active' = 3 - active
  /\ UNCHANGED <<x0, solo>>

\* minimizePowell(f, x0, options, status) is called and runs alone.
InitTwoRuns ==
  /\ x0 \in TwoRunStartPoints
  /\ objective \in TwoRunObjectives
  /\ powellOptions \in TwoRunOptions
  /\ hasPoints \in BOOLEAN
  /\ variant = "async"
  /\ pc = "idle"
  /\ f = [kind |-> "fi", fn |-> NoFn]
  /\ options = NoOptions
  /\ tol = undefined
  /\ maxIterations = 0
  /\ hasStatus = FALSE
  /\ xL = undefined
  /\ xU = undefined
  /\ x1 = undefined
  /\ x2 = undefined
  /\ f1 = undefined
  /\ f2 = undefined
  /\ f10 = undefined
  /\ f20 = undefined
  /\ xL0 = undefined
  /\ xU0 = undefined
  /\ iteration = 0
  /\ status = EmptyStatus
  /\ result = undefined
  /\ bracketed = FALSE
  /\ evals = <<>>
  /\ ppc = "enter"
  /\ n = 0
  /\ p = <<>>
  /\ u = <<>>
  /\ ui = <<>>
  /\ pj = <<>>
  /\ p0 = <<>>
  /\ iter = 0
  /\ err = undefined
  /\ perr = Num(0)
  /\ i = 0
  /\ points = <<>>
  /\ powellResult = undefined
  /\ evalCount = 0
  /\ searches = 0
  /\ pending = 0
  /\ handed = NoArray
  /\ refs = NoArrays
  /\ active = 0
  /\ other = NoRun
  /\ solo = NoRun

NextTwoRuns ==
  \/ CallTwice
  \/ Switch
  \/ Next

SpecTwoRuns == InitTwoRuns /\ [][NextTwoRuns]_vars

(***************************************************************************)
(* Properties of minimizePowell                                            *)
(***************************************************************************)
\* Coordinate j of pt respects the finite sides of the bound of dimension j.
InBound(pt, j) ==
  LET bs == BoundsOf(powellOptions)
  IN  (j <= Len(bs) /\ bs[j].k = "pair") =>
        /\ isFinite(bs[j].lo) => Le(bs[j].lo, pt[j])
        /\ isFinite(bs[j].hi) => Le(pt[j], bs[j].hi)

Returned == ppc = "done"

ReturnedPoint == ppc = "done" /\ powellResult.k = "vec"

\* C1: every point of status.points, the clamped start point included, and
\* the returned point have each coordinate j < n inside the finite bounds of
\* dimension j.
C1_PointsWithinBounds ==
  /\ \A k \in DOMAIN points : \A j \in 1..n : InBound(points[k], j)
  /\ ReturnedPoint => \A j \in 1..n : InBound(powellResult.v, j)

\* A line search has returned to minimizePowell and reports a failure:
\* undefined (NaN probe) or NaN (no bracket).
LineSearchFailed ==
  /\ ppc \in {"awaitDir", "awaitExtra"}
  /\ pc = "done"
  /\ (result.k = "undef" \/ result.k = "nan")

\* C2: when a line search fails, in a directional search or in the extra
\* search, the next step of minimizePowell returns undefined: the point is
\* not updated and no further line search starts.
C2_FailedSearchReturnsUndefined ==
  [][LineSearchFailed =>
       /\ ppc' = "done"
       /\ powellResult'.k = "undef"
       /\ p' = p
       /\ points' = points
       /\ searches' = searches]_vars

\* C3: the result of minimizePowell is undefined or a vector without a NaN
\* coordinate.
C3_NoNaNInResult ==
  ReturnedPoint => \A j \in 1..n : ~isNaN(powellResult.v[j])

MaxIterOf == OrElse(powellOptions.maxIter, Num(DefaultMaxIter)).v

Last(sq) == sq[Len(sq)]

\* The run is at a position with a next step: it waits for a line search
\* exactly while one is running or has just returned.
CanStep ==
  IF ppc \in {"awaitDir", "awaitExtra"}
  THEN pc \in {"line", "gs", "f2", "f10", "f20", "loop", "done"}
  ELSE ppc \in {"enter", "outer", "dir", "verbose", "ratio"} /\ pc = "idle"

\* C4: a run performs at most maxIter outer iterations with at most n + 1
\* line searches each and is never stuck before it returns (so, with both
\* counters bounded, it returns); when the budget of outer iterations is
\* used up it returns the current point, the last point of the trace.
C4_TerminatesWithCurrentPoint ==
  /\ iter <= MaxIterOf
  /\ searches <= iter * (n + 1)
  /\ Returned \/ CanStep
  /\ (Returned /\ iter = MaxIterOf) =>
        /\ powellResult.k = "vec"
        /\ powellResult.v = p
        /\ hasPoints => Last(points) = p

\* A run that used up its budget after at least one full outer iteration.
C4_Witness ==
  /\ Returned
  /\ iter = MaxIterOf
  /\ iter > 1
  /\ searches >= n + 1
  /\ powellResult.k = "vec"

\* A line search has returned the step 0.
ZeroStep ==
  /\ ppc \in {"awaitDir", "awaitExtra"}
  /\ pc = "done"
  /\ result = Num(0)

\* The n directional searches are over and the point is where it started.
ZeroDisplacement ==
  /\ ppc = "dir"
  /\ i = n
  /\ \A j \in 1..n : isFinite(p[j]) /\ p[j] = p0[j]

\* C5: after a zero step of a line search, or a zero displacement over the
\* n directional searches, the next step returns the current point, which
\* is the last point of the trace, without evaluating the objective and
\* without changing the point.
C5_DegenerateConvergence ==
  [][(ZeroStep \/ ZeroDisplacement) =>
       /\ ppc' = "done"
       /\ powellResult'.k = "vec"
       /\ powellResult'.v = p
       /\ p' = p
       /\ evalCount' = evalCount
       /\ points' = points
       /\ hasPoints => Last(points) = p]_vars

\* A run returned its point after a zero step of the extra search.
C5_Witness ==
  /\ ReturnedPoint
  /\ result = Num(0)
  /\ i = n
  /\ n > 0
  /\ powellResult.v = p

(***************************************************************************)
(* Properties of goldenSectionMinimize and minimizeGoldenSection1D         *)
(***************************************************************************)
GSReturned == pc = "done" /\ Len(evals) >= 4

FinalWidth == MathAbs(Sub(xU, xL))

Midpoint == Half(Add(xU, xL))

\* The interval the call was given: the arguments of the two endpoint
\* evaluations.
OriginalLo == evals[3]

OriginalHi == evals[4]

\* Some probe (not an endpoint sample) evaluated to NaN.
NaNProbe == \E k \in DOMAIN evals \ {3, 4} : isNaN(Evaluate(evals[k]))

\* Some evaluation of the call yielded NaN.
NaNSample == \E k \in DOMAIN evals : isNaN(Evaluate(evals[k]))

\* C6: a search that stops with the interval still wider than the
\* tolerance (the budget is used up) returns the midpoint of the interval,
\* a number, and reports converged = false, iterations = maxIterations and
\* argmin = the midpoint.
C6_ExhaustedReturnsMidpoint ==
  (GSReturned /\ Gt(FinalWidth, tol)) =>
     /\ isFinite(result)
     /\ result = Midpoint
     /\ hasStatus =>
          /\ status.converged = "false"
          /\ status.iterations = Num(maxIterations)
          /\ status.argmin = Midpoint

\* C7: a call of the async goldenSectionMinimize in which a probe evaluated
\* to NaN returns undefined and reports converged = false.
C7_NaNProbeFails ==
  (GSReturned /\ variant = "async" /\ NaNProbe) =>
     /\ result.k = "undef"
     /\ hasStatus => status.converged = "false"

\* C8: the async goldenSectionMinimize reports converged = true only with a
\* final interval no wider than the tolerance, and does report it for an
\* interval that is within the tolerance from the start when the budget is
\* at least 2 and no evaluation is NaN.
C8_ConvergedOnlyWithinTolerance ==
  (GSReturned /\ variant = "async" /\ hasStatus) =>
     /\ status.converged = "true" => Le(FinalWidth, tol)
     /\ (/\ Le(MathAbs(Sub(OriginalHi, OriginalLo)), tol)
         /\ maxIterations >= 2
         /\ ~NaNSample) => status.converged = "true"

\* C9: a converged call of the async goldenSectionMinimize returns an
\* original endpoint whose sample is strictly below the final estimate fF
\* when there is one, and the midpoint of the final interval otherwise.
C9_EndpointOrMidpoint ==
  (GSReturned /\ variant = "async" /\ hasStatus
     /\ status.converged = "true") =>
     LET fF == status.minimum
         loBetter == Lt(Evaluate(OriginalLo), fF)
         hiBetter == Lt(Evaluate(OriginalHi), fF)
     IN  /\ (loBetter \/ hiBetter) =>
              \/ loBetter /\ result = OriginalLo
              \/ hiBetter /\ result = OriginalHi
         /\ (~loBetter /\ ~hiBetter) => result = Midpoint

\* A converged call that returned the upper endpoint instead of the
\* midpoint.
C9_Witness ==
  /\ GSReturned
  /\ variant = "async"
  /\ status.converged = "true"
  /\ iteration > 1
  /\ result = OriginalHi
  /\ result # Midpoint
  /\ ~Lt(Evaluate(OriginalLo), status.minimum)

FiniteBounds == isFinite(options.lowerBound) /\ isFinite(options.upperBound)

\* C10: with two finite bounds minimizeGoldenSection1D does not call the
\* bracketer; the golden-section search starts, before any evaluation, on
\* the interval [lowerBound, upperBound] whatever guess and
\* initialIncrement are, and every evaluation lies in that interval.
C10_FiniteBoundsSkipBracket ==
  (FiniteBounds /\ pc # "line") =>
     /\ ~bracketed
     /\ pc = "gs" =>
          /\ xL = options.lowerBound
          /\ xU = options.upperBound
          /\ evals = <<>>
     /\ Len(evals) >= 4 =>
          /\ OriginalLo = options.lowerBound
          /\ OriginalHi = options.upperBound
     /\ \A k \in DOMAIN evals :
          /\ Le(options.lowerBound, evals[k])
          /\ Le(evals[k], options.upperBound)

\* A bounded search with a guess and an increment has run its iterations.
C10_Witness ==
  /\ FiniteBounds
  /\ pc = "done"
  /\ options.guess.k = "num"
  /\ options.initialIncrement.k = "num"
  /\ Len(evals) > 5

\* The call of minimizeGoldenSection1D returned right after the bracketer:
\* goldenSectionMinimize was never entered.
BailedOut == pc = "done" /\ bracketed /\ xL.k = "undef"

\* C11: a call of minimizeGoldenSection1D that bails out after a failed
\* bracketing returns NaN, and its status record reports argmin = NaN,
\* minimum = NaN and converged = false.
C11_BailOutReportsNaN ==
  BailedOut =>
     /\ isNaN(result)
     /\ hasStatus =>
          /\ isNaN(status.argmin)
          /\ isNaN(status.minimum)
          /\ status.converged = "false"

\* A call with a status record has returned and reports convergence.
ConvergedCall == pc = "done" /\ hasStatus /\ status.converged = "true"

\* C12: after a converged call with a status record, status.argmin is the
\* returned point, and when that point is an original endpoint rather than
\* the midpoint of the final interval, status.minimum is the objective
\* value at it.
C12_StatusDescribesAnswer ==
  ConvergedCall =>
     /\ status.argmin = result
     /\ result # Midpoint => status.minimum = Evaluate(result)

\* The objective is strictly increasing (strictly decreasing) on the grid
\* points of the interval the search was given.
StrictlyIncreasing ==
  \A a \in OriginalLo.v .. (OriginalHi.v - 1) :
     Lt(Evaluate(Num(a)), Evaluate(Num(a + 1)))

StrictlyDecreasing ==
  \A a \in OriginalLo.v .. (OriginalHi.v - 1) :
     Gt(Evaluate(Num(a)), Evaluate(Num(a + 1)))

\* The search ended neither on its budget nor on a NaN probe.
ConvergedSearch ==
  /\ GSReturned
  /\ iteration # maxIterations
  /\ ~isNaN(f1)
  /\ ~isNaN(f2)

\* C13: a converged search of a strictly monotone objective on [lo, hi]
\* with lo < hi returns exactly lo when the objective increases and exactly
\* hi when it decreases.
C13_MonotoneReturnsEndpoint ==
  (ConvergedSearch /\ Lt(OriginalLo, OriginalHi)) =>
     /\ StrictlyIncreasing => result = OriginalLo
     /\ StrictlyDecreasing => result = OriginalHi

\* A converged search of a decreasing objective shrank the interval towards
\* the upper endpoint and returned that endpoint, not the midpoint.
C13_Witness ==
  /\ ConvergedSearch
  /\ variant = "async"
  /\ Lt(OriginalLo, OriginalHi)
  /\ StrictlyDecreasing
  /\ iteration > 2
  /\ result = OriginalHi
  /\ Midpoint # OriginalHi

(***************************************************************************)
(* Further properties of minimizePowell                                    *)
(***************************************************************************)
\* The objective is a convex quadratic without NaN values whose minimum
\* objective.c lies inside the bounds, and the budget allows an outer
\* iteration.
ConvexCase ==
  /\ objective.shape = "bowl"
  /\ objective.nanFrom > objective.nanTo
  /\ \A j \in 1..n : InBound([k \in 1..n |-> Num(objective.c[k])], j)
  /\ MaxIterOf >= 2

\* The distance from the minimum that counts as found: a fifth of a unit,
\* twice the coarsest tolerance of a line search.
ResultTolerance == StepsPerUnit \div 5

\* C14: for a convex quadratic with its minimum inside the bounds (or
\* without bounds), a run returns a point whose coordinates are all within
\* the tolerance of the minimum.
C14_ConvexQuadraticConverges ==
  (Returned /\ ConvexCase) =>
     /\ powellResult.k = "vec"
     /\ \A j \in 1..n :
          /\ isFinite(powellResult.v[j])
          /\ AbsInt(powellResult.v[j].v - objective.c[j]) <= ResultTolerance

\* A line search of minimizePowell has just been called: options holds the
\* step limits tlimit computed by bound(p, ui).
LineSearchCalled == ppc \in {"awaitDir", "awaitExtra"} /\ pc = "line"

\* The point is finite and inside every finite bound.
PointInBounds ==
  \A j \in 1..n : isFinite(p[j]) /\ InBound(p, j)

\* Coordinate j after the step t along ui, before any clamping.
SteppedCoordinate(t, j) == Add(p[j], MulU(t, ui[j]))

\* One grid step, the rounding of a step limit and of a step.
Rounding == Num(1)

\* The step limit t is finite and keeps coordinate j above the lower bound
\* (below the upper bound) of dimension j, up to rounding.
KeepsAbove(t, j) ==
  /\ isFinite(t)
  /\ Le(Sub(BoundsOf(powellOptions)[j].lo, Rounding), SteppedCoordinate(t, j))

KeepsBelow(t, j) ==
  /\ isFinite(t)
  /\ Le(SteppedCoordinate(t, j), Add(BoundsOf(powellOptions)[j].hi, Rounding))

\* C15: at an in-bounds point the step interval [lower, upper] handed to
\* the line search contains 0, and for every dimension j with a nonzero
\* direction component and a finite bound both ends of the interval keep
\* coordinate j inside that bound (the coordinate is linear in the step, so
\* every step of the interval does), for negative components as for
\* positive ones.
C15_StepIntervalInsideBox ==
  (LineSearchCalled /\ PointInBounds /\ powellOptions.hasBounds) =>
     LET lower == options.lowerBound
         upper == options.upperBound
         bs == BoundsOf(powellOptions)
     IN  /\ Le(lower, Num(0))
         /\ Le(Num(0), upper)
         /\ \A j \in 1..n :
              (j <= Len(bs) /\ bs[j].k = "pair" /\ ui[j] # Num(0)) =>
                 /\ isFinite(bs[j].lo) =>
                      IF Gt(ui[j], Num(0)) THEN KeepsAbove(lower, j)
                      ELSE KeepsAbove(upper, j)
                 /\ isFinite(bs[j].hi) =>
                      IF Gt(ui[j], Num(0)) THEN KeepsBelow(upper, j)
                      ELSE KeepsBelow(lower, j)

\* The direction set is read: an outer iteration starts, or a directional
\* search is about to start or is running.
DirectionsRead == ppc = "outer" \/ (ppc \in {"dir", "awaitDir"} /\ i < n)

\* The directional searches of an outer iteration whose index is a multiple
\* of n are under way.
ResetIteration == ppc \in {"dir", "awaitDir"} /\ n > 0 /\ iter % n = 0

\* C16: whenever the direction set is read it holds n directions of n
\* components; a running directional search uses direction i of the set;
\* and in an outer iteration whose index is a multiple of n the set is the
\* standard basis, searched in order.
C16_DirectionSet ==
  /\ DirectionsRead =>
       /\ Len(u) = n
       /\ \A k \in 1..n : Len(u[k]) = n
  /\ (ppc = "awaitDir" /\ i < n) => ui = u[i + 1]
  /\ ResetIteration =>
       /\ u = Basis(n)
       /\ (ppc = "awaitDir" /\ i < n) => ui = Basis(n)[i + 1]

\* The second basis direction is searched in the second outer iteration of
\* a run in two dimensions, after the first iteration replaced a direction.
C16_Witness ==
  /\ ppc = "awaitDir"
  /\ n = 2
  /\ iter = 2
  /\ i = 1
  /\ ui = Basis(2)[2]
  /\ Len(points) > 3

(***************************************************************************)
(* Evaluations of the objective                                            *)
(***************************************************************************)
\* A step of the while loop of goldenSectionMinimize.
ShrinkStep == pc = "loop" /\ iteration' # iteration /\ pc' = "loop"

\* C17: every shrink iteration evaluates the objective once and carries
\* the probe of the kept side and its value over; a call that returned has
\* made 4 + (iterations - 1) evaluations, iterations being the count the
\* status reports, which is at most maxIterations + 3 when maxIterations
\* is at least 1.
C17_OneEvaluationPerIteration ==
  /\ [](GSReturned =>
          /\ Len(evals) = 4 + (iteration - 1)
          /\ evalCount = Len(evals)
          /\ hasStatus => status.iterations = Num(iteration)
          /\ maxIterations >= 1 => Len(evals) <= maxIterations + 3)
  /\ [][ShrinkStep =>
          /\ evalCount' = evalCount + 1
          /\ Len(evals') = Len(evals) + 1
          /\ \/ x1' = x2 /\ f1' = f2 /\ x2' = evals'[Len(evals')]
             \/ x2' = x1 /\ f2' = f1 /\ x1' = evals'[Len(evals')]]_vars

\* A call has returned after several shrink iterations within its budget.
C17_Witness ==
  /\ GSReturned
  /\ variant = "async"
  /\ iteration > 3
  /\ iteration = maxIterations
  /\ Len(evals) = maxIterations + 3

\* A line search of minimizePowell is running or has just returned.
InLineSearch == ppc \in {"awaitDir", "awaitExtra"} /\ pc # "idle"

TraceArrays == {refs.points[k] : k \in DOMAIN refs.points}

\* C20: minimizePowell never modifies the caller's x0; the entries of the
\* trace are separate copies, which no later step changes; and the array
\* handed to the objective, in every evaluation, is neither the solution
\* vector p itself nor the caller's x0 nor an entry of the trace.
C20_NoAliasing ==
  /\ [][x0' = x0]_vars
  /\ [][\A k \in DOMAIN points :
          k \in DOMAIN points' /\ points'[k] = points[k]]_vars
  /\ [](\A k \in DOMAIN refs.points :
          /\ refs.points[k] \notin {refs.p, X0Array}
          /\ \A m \in DOMAIN refs.points :
               m # k => refs.points[m] # refs.points[k])
  /\ [](handed # NoArray => handed \notin {refs.p, X0Array} \cup TraceArrays)

(***************************************************************************)
(* Runs that interleave                                                    *)
(***************************************************************************)
\* The arrays a frame writes to: its solution vector, its scratch array and
\* the entries of its trace.
ArraysOf(fr, run) ==
  ({fr.refs.p} \cup {fr.refs.points[k] : k \in DOMAIN fr.refs.points}
     \cup (IF fr.ppc = "enter" THEN {} ELSE {<<"pj", run, 0>>}))
  \ {NoArray}

\* Two runs are interleaved.
Interleaved == active > 0

\* The frame fr is of a finished run with the arguments of the run that
\* was alone.
FinishedLikeSolo(fr) ==
  /\ fr.ppc = "done"
  /\ fr.objective = solo.objective
  /\ fr.powellOptions = solo.powellOptions
  /\ fr.hasPoints = solo.hasPoints

\* C19: two runs of minimizePowell, each continued at any of its awaits
\* while the other is suspended, do not interfere: a step of one run
\* changes neither the frame of the suspended run nor the array x0 they
\* were both given, the arrays the two runs write to are disjoint, and
\* a run returns the result and the trace of the run with its arguments
\* that was alone.
C19_RunsDoNotInterfere ==
  /\ [][Interleaved /\ active' = active => other' = other]_vars
  /\ [][x0' = x0]_vars
  /\ [](Interleaved =>
         /\ ArraysOf(Frame, active) \cap ArraysOf(other, 3 - active) = {}
         /\ X0Array \notin ArraysOf(Frame, active)
                          \cup ArraysOf(other, 3 - active))
  /\ [](Interleaved =>
         \A fr \in {Frame, other} :
           FinishedLikeSolo(fr) => Report(fr) = solo)

\* The two interleaved runs were given the arguments of the run that was
\* alone, which traced its steps and returned a point, and both have
\* returned.
C19_Witness ==
  /\ Interleaved
  /\ ppc = "done"
  /\ other.ppc = "done"
  /\ FinishedLikeSolo(Frame)
  /\ FinishedLikeSolo(other)
  /\ solo.result.k = "vec"
  /\ Len(solo.points) > 1

(***************************************************************************)
(* The length of the point                                                 *)
(***************************************************************************)
\* The run has passed its entry: p is assigned.
Entered == ppc \notin {"none", "enter"}

\* C21: the point keeps the length of x0 for the whole run of
\* minimizePowell: p, every entry of the trace and the returned point have
\* as many coordinates as x0, whatever the length of the bounds array and
\* whether or not it has null entries.
C21_PointKeepsLength ==
  Entered =>
    /\ Len(p) = Len(x0)
    /\ \A k \in DOMAIN points : Len(points[k]) = Len(x0)
    /\ powellResult.k = "vec" => Len(powellResult.v) = Len(x0)

(***************************************************************************)
(* The endpoint that a converged search returns                            *)
(***************************************************************************)
\* The converged search returned an original endpoint.
ReturnedEndpoint == ConvergedSearch /\ result \in {xL0, xU0}

\* C22: a converged goldenSectionMinimize call that returns one of the
\* original endpoints returns the one with the smaller objective value:
\* the other endpoint is not strictly below it, also when both endpoints
\* are below the final interior estimate.
C22_ReturnsLowerEndpoint ==
  ReturnedEndpoint =>
    \/ result = xL0 /\ ~Lt(f20, f10)
    \/ result = xU0 /\ ~Lt(f10, f20)

====
